---- MODULE Spec2Model ----
(***************************************************************************)
(* Model of colcon-in-container's Docker provider                          *)
(* (src/colcon_in_container/providers/docker.py): the DockerClient         *)
(* constructor, its operations, and the module-level status waiter, run    *)
(* against a Docker backend whose answers are nondeterministic.            *)
(***************************************************************************)
EXTENDS Integers, Sequences, FiniteSets, TLC

\* ---- program constants (docker.py:24-28) ----
WS_DIR == "/ws"
CONTAINER_START_TIMEOUT == 5
DOCKER_IMAGE_PREFIX == "colcon-in-container"
DOCKER_CONTAINER_STATUS_RUNNING == "running"
\* time.sleep(1.0) in the status waiter
POLL_INTERVAL == 1

\* ---- bounds of the model ----
\* largest clock reading time.time() returns when a wait starts
MaxClock == 2
\* largest timeout a direct caller of the waiter passes
MaxTimeout == 2
\* most chunks one exec output stream delivers
MaxChunks == 2
\* saturation of the counter of consecutive evictions that found nothing
MaxEvictRuns == 2
\* members of an archive pulled from the instance
MaxMembers == 2

\* no runtime version read yet
NoVersion == <<0, 0>>

\* ---- value sets ----
None == "None"

\* _providers: Dict[str, Provider] = {}
NoProviders == [n \in {} |-> None]

\* no ProviderFactory.create call has been made
NoCreate == [name |-> None, invoked |-> <<>>]
Unset == "unset"
Absent == "absent"
\* the Container object the client library hands out for instance_name
Handle == "container"
Statuses == {"created", "running", "exited", "removing"}
\* self.instance_name, set by the Provider base class
instance_name == "colcon-in-container"
\* f'{DOCKER_IMAGE_PREFIX}:{self.ubuntu_distro}-{self.ros_distro}'
DefaultImage == "colcon-in-container:distro"
\* a non-empty --docker-image value
UserImage == "user/image"
ImageNames == {DefaultImage, UserImage}
\* acceptable-status arguments a caller passes to the waiter (lists; a bare
\* string is wrapped into a one-element list)
StatusArgs == {{"running"}, {"running", "exited"}}
ExitCodes == {0, 1, 2}
Commands == {"/bin/true", "/bin/false", "colcon build"}
\* bytes of an exec output stream, by class: an ASCII letter, a newline, the
\* lead byte and the continuation byte of a two-byte UTF-8 character
Chunks == {<<"a">>, <<"a", "nl", "nl">>, <<"hi", "lo", "nl">>, <<"hi">>}

VARIABLES
    pc,            \* position of the (single) thread of control
    op,            \* operation in progress or last finished
    err,           \* kind of the exception the last operation raised, or "none"
    ret,           \* <<value>> the last operation returned, <<>> if none
    cli_args,      \* [docker_image, docker_force_build] given to __init__
    hostSystem,    \* platform.system()
    _container,    \* self._container: Unset (no attribute), None, or Handle
    docker_image,  \* self.docker_image
    instStatus,    \* backend: status of the instance named instance_name, or Absent
    instPending,   \* backend: a removal of that instance was accepted, not finished
    images,        \* backend: names of the images that exist locally
    calls,         \* backend calls issued by the operation in progress, in order
    wCaller,       \* who called _wait_for_container_status: "ctor" or "direct"
    wContainer,    \* waiter argument container
    wStatus,       \* waiter argument status (as a list of names)
    timeout,       \* waiter argument timeout
    t_start,       \* waiter local t_start
    now,           \* the clock time.time() reads
    cStatus,       \* container.status: the status cached by the last reload()
    observed,      \* statuses read by the container.reload() calls of the wait
    sleeps,        \* time.sleep calls of the current wait
    command,       \* execute_command argument
    execExit,      \* backend: <<exit code>> of the exec context, <<>> while it runs
    received,      \* chunks the exec output stream has delivered
    logSink,       \* records written to logger_instance.debug
    reachedRunning,\* the constructor's wait saw the instance 'running'
    wsCreated,     \* the constructor's mkdir -p /ws exited with 0
    evictFound,    \* status the eviction lookup found, Absent, or "error"
    emptyEvictions,\* consecutive eviction steps whose lookup found nothing
    dpc,           \* position of the build driver (BuildInContainerVerb.main)
    dlog,          \* provider and rosdep calls the driver made, with results
    decorators,    \* the decorators the loop of main has not visited yet
    selected,      \* packages whose decorator.selected is true
    context_args,  \* [debug, shell_after] of context.args, once read
    build_exit_code, \* <<value>> of main's build_exit_code, <<>> before
    mainRet,       \* <<value>> main returned, <<>> before
    version_info,  \* sys.version_info (major, minor) read by _recursive_get
    archive,       \* entries of the archive pulled by _recursive_get
    written,       \* host paths, relative to local_path, the extraction wrote
    _providers,    \* ProviderFactory._providers: name -> provider class
    argsCalled,    \* classes whose register_args got the parser
    created        \* the create call made: its name, the constructors invoked

vars == <<pc, op, err, ret, cli_args, hostSystem, _container, docker_image,
          instStatus, instPending, images, calls, wCaller, wContainer, wStatus,
          timeout, t_start, now, cStatus, observed, sleeps, command, execExit,
          received, logSink, reachedRunning, wsCreated, evictFound,
          emptyEvictions, dpc, dlog, decorators, selected, context_args,
          build_exit_code,
          mainRet, version_info, archive, written, _providers, argsCalled,
          created>>

provVars == <<cli_args, hostSystem, _container, docker_image>>
backendVars == <<instStatus, instPending, images>>
waitVars == <<wCaller, wContainer, wStatus, timeout, t_start, now, cStatus,
              observed, sleeps>>
execVars == <<command, execExit, received, logSink>>
ghostVars == <<reachedRunning, wsCreated, evictFound, emptyEvictions>>
keptGhosts == <<reachedRunning, wsCreated, emptyEvictions>>
drvVars == <<dpc, dlog, decorators, selected, context_args, build_exit_code,
             mainRet>>
tarVars == <<version_info, archive, written>>
factVars == <<_providers, argsCalled, created>>

\* one backend call: its name, its target and its options; dir is the
\* directory argument of an exec; nameInUse is set on a containers.run request
\* issued while the name is taken in the backend
Call(name, target, opts) ==
    [op |-> name, target |-> target, opts |-> opts, dir |-> "",
     nameInUse |-> FALSE, result |-> ""]

\* a lookup of an image, with the answer the backend gave: "found",
\* "missing" (NotFound) or "error" (APIError)
\* a call with the outcome the caller's try/except saw: "ok", the value
\* returned, or the exception raised
Answered(c, answer) == [c EXCEPT !.result = answer]

ImageLookup(name, answer) ==
    [Call("images.get", name, {}) EXCEPT !.result = answer]

CallNames == {calls[i].op : i \in 1..Len(calls)}

\* index of the first call with the given name, 0 if there is none
RECURSIVE FirstFrom(_, _)
FirstFrom(name, i) ==
    IF i > Len(calls) THEN 0
    ELSE IF calls[i].op = name THEN i
    ELSE FirstFrom(name, i + 1)

FirstCall(name) == FirstFrom(name, 1)

CountCalls(name) == Cardinality({i \in 1..Len(calls) : calls[i].op = name})

Init ==
    /\ pc = "import"
    /\ op = "none"
    /\ err = "none"
    /\ ret = <<>>
    /\ _providers = NoProviders
    /\ argsCalled = {}
    /\ created = NoCreate
    /\ cli_args = [docker_image |-> "", docker_force_build |-> FALSE]
    /\ hostSystem = "Linux"
    /\ _container = Unset
    /\ docker_image = Unset
    /\ instStatus \in {Absent} \cup (Statuses \ {"removing"})
    /\ instPending = FALSE
    /\ images \in SUBSET ImageNames
    /\ calls = <<>>
    /\ wCaller = "none"
    /\ wContainer = None
    /\ wStatus = {}
    /\ timeout = 0
    /\ t_start = 0
    /\ now = 0
    /\ cStatus = "none"
    /\ observed = <<>>
    /\ sleeps = 0
    /\ command = "none"
    /\ execExit = <<>>
    /\ received = <<>>
    /\ logSink = <<>>
    /\ reachedRunning = FALSE
    /\ wsCreated = FALSE
    /\ evictFound = "none"
    /\ emptyEvictions = 0
    /\ dpc = "none"
    /\ dlog = <<>>
    /\ decorators = <<>>
    /\ selected = {}
    /\ context_args = [debug |-> FALSE, shell_after |-> FALSE]
    /\ build_exit_code = <<>>
    /\ mainRet = <<>>
    /\ version_info = NoVersion
    /\ archive = <<>>
    /\ written = {}

\* ======================================================================
\* _wait_for_container_status (docker.py:282-298)
\* ======================================================================

\* t_timeout = t_start + timeout
t_timeout == t_start + timeout

\* line 292 with the status test left out
WaitLoopCondNoStatus ==
    (now - t_start) < t_timeout

\* the while condition of line 292
WaitLoopCond ==
    /\ ~(cStatus \in wStatus)
    /\ (now - t_start) < t_timeout

\* how the waiter ends: back to its caller
WaitReturn(e) ==
    IF wCaller = "ctor"
    THEN /\ pc' = IF e = "none" THEN "init_mkdir" ELSE "failed"
         /\ err' = e
         /\ reachedRunning' = (e = "none")
         /\ UNCHANGED <<op, ret>>
    ELSE /\ pc' = "w_done"
         /\ err' = e
         /\ UNCHANGED <<op, ret, reachedRunning>>

\* a caller outside the constructor invokes the waiter
WaitCall ==
    /\ dpc = "none"
    /\ pc = "idle"
    /\ \E c \in {None, Handle}, s \in StatusArgs, tmo \in (0 - 1)..MaxTimeout :
         /\ c = Handle => (instStatus # Absent /\ ~instPending)
         /\ wContainer' = c
         /\ wStatus' = s
         /\ timeout' = tmo
    /\ wCaller' = "direct"
    /\ pc' = "w_args"
    /\ op' = "_wait_for_container_status"
    /\ UNCHANGED <<err, ret, calls, t_start, now, cStatus, observed, sleeps>>
    /\ UNCHANGED <<provVars, backendVars, execVars, ghostVars>>
    /\ UNCHANGED <<drvVars, tarVars>>
    /\ UNCHANGED factVars

\* lines 283-286 with the test of the timeout left out
InvalidWaitArgsNoTimeout == wContainer = None

\* lines 283-286: the arguments for which the waiter raises ValueError
InvalidWaitArgs == wContainer = None \/ timeout < 0

\* lines 283-291: argument checks, t_start = time.time(), first reload()
WaitEnter ==
    /\ pc = "w_args"
    /\ IF InvalidWaitArgs
       THEN /\ WaitReturn("ValueError")
            /\ UNCHANGED <<calls, t_start, now, cStatus, observed, sleeps>>
       ELSE /\ \E clock \in 0..MaxClock :
                 /\ now' = clock
                 /\ t_start' = clock
            /\ cStatus' = instStatus
            /\ observed' = Append(observed, instStatus)
            /\ pc' = "w_loop"
            /\ UNCHANGED <<op, err, ret, calls, sleeps, reachedRunning>>
    /\ UNCHANGED <<wCaller, wContainer, wStatus, timeout>>
    /\ UNCHANGED <<provVars, backendVars, execVars, wsCreated, evictFound,
                   emptyEvictions>>
    /\ UNCHANGED <<drvVars, tarVars>>
    /\ UNCHANGED factVars

\* lines 292-294: the loop test; when it holds, time.sleep(1.0)
WaitSleep ==
    /\ pc = "w_loop"
    /\ WaitLoopCond
    /\ now' = now + POLL_INTERVAL
    /\ sleeps' = sleeps + 1
    /\ pc' = "w_reload"
    /\ UNCHANGED <<op, err, ret, calls, wCaller, wContainer, wStatus, timeout,
                   t_start, cStatus, observed>>
    /\ UNCHANGED <<provVars, backendVars, execVars, ghostVars>>
    /\ UNCHANGED <<drvVars, tarVars>>
    /\ UNCHANGED factVars

\* line 295: container.reload() at the end of the loop body
WaitReload ==
    /\ pc = "w_reload"
    /\ cStatus' = instStatus
    /\ observed' = Append(observed, instStatus)
    /\ pc' = "w_loop"
    /\ UNCHANGED <<op, err, ret, calls, wCaller, wContainer, wStatus, timeout,
                   t_start, now, sleeps>>
    /\ UNCHANGED <<provVars, backendVars, execVars, ghostVars>>
    /\ UNCHANGED <<drvVars, tarVars>>
    /\ UNCHANGED factVars

\* lines 296-298: the loop is left; raise unless the status is acceptable
\* lines 296-298 with the instance removed when the wait gives up
WaitExitCleansUp ==
    /\ pc = "w_loop"
    /\ ~WaitLoopCond
    /\ WaitReturn(IF cStatus \in wStatus THEN "none"
                  ELSE "ProviderClientError")
    /\ IF cStatus \in wStatus
       THEN UNCHANGED <<calls, backendVars>>
       ELSE /\ calls' = Append(calls, Call("container.remove", instance_name,
                                            {"force"}))
            /\ instStatus' = Absent
            /\ instPending' = FALSE
            /\ UNCHANGED images
    /\ UNCHANGED waitVars
    /\ UNCHANGED <<provVars, execVars, wsCreated, evictFound, emptyEvictions>>
    /\ UNCHANGED <<drvVars, tarVars>>
    /\ UNCHANGED factVars

WaitExit ==
    /\ pc = "w_loop"
    /\ ~WaitLoopCond
    /\ WaitReturn(IF cStatus \in wStatus THEN "none"
                  ELSE "ProviderClientError")
    /\ UNCHANGED <<calls, waitVars>>
    /\ UNCHANGED <<provVars, backendVars, execVars, wsCreated, evictFound,
                   emptyEvictions>>
    /\ UNCHANGED <<drvVars, tarVars>>
    /\ UNCHANGED factVars

\* ======================================================================
\* DockerClient.__init__ (docker.py:50-191)
\* ======================================================================

\* an exception leaves the constructor: no provider is handed to the caller
Fail(e) ==
    /\ pc' = "failed"
    /\ err' = e

\* the caller invokes DockerClient(cli_args)
NewProvider ==
    /\ dpc = "none"
    /\ pc = "idle"
    /\ \E img \in {"", UserImage}, force \in BOOLEAN :
         cli_args' = [docker_image |-> img, docker_force_build |-> force]
    /\ hostSystem' \in {"Linux", "Darwin"}
    /\ pc' = "init_host"
    /\ op' = "__init__"
    /\ UNCHANGED <<err, ret, _container, docker_image, backendVars, calls,
                   waitVars, execVars, ghostVars>>
    /\ UNCHANGED <<drvVars, tarVars>>

\* ======================================================================
\* ProviderFactory (provider_factory.py:26-61)
\* ======================================================================

\* the registrations the module makes when it is imported
StartUp == << <<"docker", "DockerClient">>, <<"lxd", "LXDClient">>,
             <<"multipass", "MultipassClient">> >>

\* the names a caller may pass to create
CreateNames == {"docker", "lxd", "multipass", "podman"}

\* cls._providers[name] = provider
register(reg, name, provider) ==
    [n \in DOMAIN reg \cup {name} |-> IF n = name THEN provider ELSE reg[n]]

\* one registration statement of the module runs; after the last one the
\* module is imported and its callers may run
Register ==
    /\ pc = "import"
    /\ LET k == Cardinality(DOMAIN _providers) + 1 IN
         /\ _providers' = register(_providers, StartUp[k][1], StartUp[k][2])
         /\ pc' = IF k = Len(StartUp) THEN "idle" ELSE "import"
    /\ UNCHANGED <<op, err, ret, provVars, backendVars, calls, waitVars,
                   execVars, ghostVars, argsCalled, created>>
    /\ UNCHANGED <<drvVars, tarVars>>

\* cls._providers.get(name)
Lookup(name) == IF name \in DOMAIN _providers THEN _providers[name] ELSE None

\* the registry after a lookup that takes the entry out
RegistryAfterPop(name) ==
    [n \in DOMAIN _providers \ {name} |-> _providers[n]]

\* the registry after the lookup of create: dict.get leaves the dict alone
RegistryAfterGet(name) == _providers

\* ProviderFactory.create(name, cli_args)
FactoryCreate ==
    /\ \E name \in CreateNames :
         LET provider == Lookup(name) IN
         /\ _providers' = RegistryAfterGet(name)
         /\ IF provider = None
            THEN /\ dpc = "none"
                 /\ pc = "idle"
                 /\ op' = "create"
                 /\ Fail("ProviderNotRegisteredError")
                 /\ created' = [name |-> name, invoked |-> <<>>]
                 /\ UNCHANGED <<ret, provVars, backendVars, calls, waitVars,
                                execVars, ghostVars>>
                 /\ UNCHANGED <<drvVars, tarVars>>
            ELSE /\ created' = [name |-> name, invoked |-> <<provider>>]
                 /\ IF provider = "DockerClient"
                    THEN NewProvider
                    ELSE /\ dpc = "none"
                         /\ pc = "idle"
                         /\ op' = "create"
                         /\ pc' = "foreign"
                         /\ UNCHANGED <<err, ret, provVars, backendVars,
                                        calls, waitVars, execVars, ghostVars>>
                         /\ UNCHANGED <<drvVars, tarVars>>
    /\ UNCHANGED argsCalled

\* ProviderFactory.register_args(parser)
RegisterArgs ==
    /\ dpc = "none"
    /\ pc = "idle"
    /\ op' = "register_args"
    /\ argsCalled' = {_providers[n] : n \in DOMAIN _providers}
    /\ pc' = "registered"
    /\ UNCHANGED <<_providers, created>>
    /\ UNCHANGED <<err, ret, provVars, backendVars, calls, waitVars,
                   execVars, ghostVars>>
    /\ UNCHANGED <<drvVars, tarVars>>

\* line 53 with every host accepted
HostAlwaysSupported == FALSE

\* line 53: if system() != 'Linux'
HostUnsupported == hostSystem # "Linux"

\* lines 53-57: the host must be Linux; then self._container = None
InitHostCheck ==
    /\ pc = "init_host"
    /\ IF HostUnsupported
       THEN /\ Fail("ProviderDoesNotSupportHostOSError")
            /\ UNCHANGED _container
       ELSE /\ _container' = None
            /\ pc' = "init_client"
            /\ UNCHANGED err
    /\ UNCHANGED <<op, ret, cli_args, hostSystem, docker_image, backendVars,
                   calls, waitVars, execVars, ghostVars>>
    /\ UNCHANGED <<drvVars, tarVars>>
    /\ UNCHANGED factVars

\* lines 59-65: docker.from_env(), any exception becomes ProviderClientError
InitClient ==
    /\ pc = "init_client"
    /\ \/ /\ calls' = Append(calls,
                      Answered(Call("from_env", "docker", {}), "ok"))
          /\ pc' = "init_evict"
          /\ UNCHANGED err
       \/ /\ calls' = Append(calls,
                      Answered(Call("from_env", "docker", {}), "Exception"))
          /\ Fail("ProviderClientError")
    /\ UNCHANGED <<op, ret, provVars, backendVars, waitVars, execVars,
                   ghostVars>>
    /\ UNCHANGED <<drvVars, tarVars>>
    /\ UNCHANGED factVars

\* saturating count of consecutive eviction lookups that found nothing
BumpEmpty == IF emptyEvictions < MaxEvictRuns THEN emptyEvictions + 1
             ELSE emptyEvictions

\* line 70: containers.get(instance_name) of the eviction step, with the
\* handlers of lines 73-76
EvictLookup ==
    /\ pc = "init_evict"
    /\ calls' = Append(calls, Call("containers.get", instance_name, {}))
    /\ \/ /\ instStatus = Absent
          /\ evictFound' = Absent
          /\ emptyEvictions' = BumpEmpty
          /\ pc' = "init_confirm"
          /\ UNCHANGED err
       \/ /\ instStatus # Absent
          /\ evictFound' = instStatus
          /\ emptyEvictions' = 0
          /\ pc' = "init_evict_remove"
          /\ UNCHANGED err
       \/ /\ evictFound' = "error"
          /\ emptyEvictions' = 0
          /\ Fail("ProviderClientError")
    /\ UNCHANGED <<op, ret, provVars, backendVars, waitVars, execVars,
                   reachedRunning, wsCreated>>
    /\ UNCHANGED <<drvVars, tarVars>>
    /\ UNCHANGED factVars

\* removal of a found instance only when it is running
EvictRemovesRunningOnly(s) == s = DOCKER_CONTAINER_STATUS_RUNNING

\* the statuses for which line 72 removes the instance it found
EvictRemovesStatus(s) == TRUE

\* line 72: container.remove(v=True, force=True), with the handlers of 73-76
EvictRemove ==
    /\ pc = "init_evict_remove"
    /\ IF EvictRemovesStatus(evictFound)
       THEN /\ calls' = Append(calls,
                        Call("container.remove", instance_name, {"v", "force"}))
            /\ \/ \* the instance vanished since the lookup: NotFound, caught
                  /\ instStatus = Absent
                  /\ pc' = "init_confirm"
                  /\ UNCHANGED <<err, backendVars>>
               \/ \* removed, with its volumes
                  /\ instStatus # Absent
                  /\ instStatus' = Absent
                  /\ instPending' = FALSE
                  /\ pc' = "init_confirm"
                  /\ UNCHANGED <<err, images>>
               \/ \* removal accepted by the daemon, not finished yet
                  /\ instStatus # Absent
                  /\ instStatus' \in {instStatus, "removing"}
                  /\ instPending' = TRUE
                  /\ pc' = "init_confirm"
                  /\ UNCHANGED <<err, images>>
               \/ /\ Fail("ProviderClientError")
                  /\ UNCHANGED backendVars
       ELSE /\ pc' = "init_confirm"
            /\ UNCHANGED <<err, calls, backendVars>>
    /\ UNCHANGED <<op, ret, provVars, waitVars, execVars, ghostVars>>
    /\ UNCHANGED <<drvVars, tarVars>>
    /\ UNCHANGED factVars

\* line 81: containers.get(instance_name) of the confirmation, with the
\* status it reported or the exception it raised
ContainerRequery(answer) ==
    Answered(Call("containers.get", instance_name, {}), answer)

\* line 82 with a still-running instance let through
ConfirmRejectsNothing(s) == FALSE

\* the statuses of a still-present instance that line 82 treats as fatal
ConfirmRejects(s) == s = DOCKER_CONTAINER_STATUS_RUNNING

\* lines 79-88: re-query after the removal
ConfirmLookup ==
    /\ pc = "init_confirm"
    /\ \/ /\ instStatus = Absent
          /\ calls' = Append(calls, ContainerRequery("NotFound"))
          /\ pc' = "init_image"
          /\ UNCHANGED err
       \/ /\ instStatus # Absent
          /\ calls' = Append(calls, ContainerRequery(instStatus))
          /\ IF ConfirmRejects(instStatus)
             THEN Fail("ProviderClientError")
             ELSE /\ pc' = "init_image"
                  /\ UNCHANGED err
       \/ /\ calls' = Append(calls, ContainerRequery("APIError"))
          /\ Fail("ProviderClientError")
    /\ UNCHANGED <<op, ret, provVars, backendVars, waitVars, execVars,
                   ghostVars>>
    /\ UNCHANGED <<drvVars, tarVars>>
    /\ UNCHANGED factVars

\* ---- base image resolution (docker.py:90-159) ----

\* _image_exists (docker.py:272-279), the answer of images.get(name)
_image_exists(name) == name \in images

\* line 92 letting a forced build take the branch of the default image
UserImageGivenUnlessForced ==
    cli_args.docker_image # "" /\ ~cli_args.docker_force_build

\* line 92: if cli_args.docker_image
UserImageGiven == cli_args.docker_image # ""

\* line 126 with the flag ignored
ForcedBuildIgnored == FALSE

\* line 126: the first operand of the test, cli_args.docker_force_build
ForcedBuildRequested == cli_args.docker_force_build

\* lines 92-107: the caller named an image; it must exist locally
InitUserImage ==
    /\ pc = "init_image"
    /\ UserImageGiven
    /\ logSink' = IF cli_args.docker_force_build
                  THEN Append(logSink, <<"warn", "forced rebuild ignored">>)
                  ELSE logSink
    /\ \/ /\ _image_exists(cli_args.docker_image)
          /\ calls' = Append(calls, ImageLookup(cli_args.docker_image, "found"))
          /\ docker_image' = cli_args.docker_image
          /\ pc' = "init_run"
          /\ UNCHANGED err
       \/ /\ ~_image_exists(cli_args.docker_image)
          /\ calls' = Append(calls,
                             ImageLookup(cli_args.docker_image, "missing"))
          /\ Fail("ProviderClientError")
          /\ UNCHANGED docker_image
       \/ \* APIError inside _image_exists
          /\ calls' = Append(calls, ImageLookup(cli_args.docker_image, "error"))
          /\ Fail("ProviderClientError")
          /\ UNCHANGED docker_image
    /\ UNCHANGED <<op, ret, cli_args, hostSystem, _container, backendVars,
                   waitVars, command, execExit, received, ghostVars>>
    /\ UNCHANGED <<drvVars, tarVars>>
    /\ UNCHANGED factVars

\* line 126: with a forced build the existing image is looked up (the lookup
\* is skipped when the flag is off)
InitForceCheck ==
    /\ pc = "init_image"
    /\ ~UserImageGiven
    /\ IF ForcedBuildRequested
       THEN \/ /\ _image_exists(DefaultImage)
               /\ calls' = Append(calls, ImageLookup(DefaultImage, "found"))
               /\ pc' = "init_image_remove"
               /\ UNCHANGED err
            \/ /\ ~_image_exists(DefaultImage)
               /\ calls' = Append(calls, ImageLookup(DefaultImage, "missing"))
               /\ pc' = "init_image_check"
               /\ UNCHANGED err
            \/ /\ calls' = Append(calls, ImageLookup(DefaultImage, "error"))
               /\ Fail("ProviderClientError")
       ELSE /\ pc' = "init_image_check"
            /\ UNCHANGED <<err, calls>>
    /\ UNCHANGED <<op, ret, provVars, backendVars, waitVars, execVars,
                   ghostVars>>
    /\ UNCHANGED <<drvVars, tarVars>>
    /\ UNCHANGED factVars

\* line 129: images.remove(image=docker_image, force=True); an error of the
\* backend is not handled here and leaves the constructor as it is
InitImageRemove ==
    /\ pc = "init_image_remove"
    /\ calls' = Append(calls, Call("images.remove", DefaultImage, {"force"}))
    /\ \/ /\ images' = images \ {DefaultImage}
          /\ pc' = "init_image_check"
          /\ UNCHANGED err
       \/ /\ Fail("docker.errors.APIError")
          /\ UNCHANGED images
    /\ UNCHANGED <<op, ret, provVars, instStatus, instPending, waitVars,
                   execVars, ghostVars>>
    /\ UNCHANGED <<drvVars, tarVars>>
    /\ UNCHANGED factVars

\* lines 132 and 157-159: build only if the image does not exist
InitImageCheck ==
    /\ pc = "init_image_check"
    /\ \/ /\ _image_exists(DefaultImage)
          /\ calls' = Append(calls, ImageLookup(DefaultImage, "found"))
          /\ docker_image' = DefaultImage
          /\ pc' = "init_run"
          /\ UNCHANGED err
       \/ /\ ~_image_exists(DefaultImage)
          /\ calls' = Append(calls, ImageLookup(DefaultImage, "missing"))
          /\ pc' = "init_build"
          /\ UNCHANGED <<err, docker_image>>
       \/ /\ calls' = Append(calls, ImageLookup(DefaultImage, "error"))
          /\ Fail("ProviderClientError")
          /\ UNCHANGED docker_image
    /\ UNCHANGED <<op, ret, cli_args, hostSystem, _container, backendVars,
                   waitVars, execVars, ghostVars>>
    /\ UNCHANGED <<drvVars, tarVars>>
    /\ UNCHANGED factVars

\* line 144: images.build(fileobj=buf, tag=docker_image, rm=True), with "ok"
\* or the exception it raised
ImageBuild(answer) ==
    Answered(Call("images.build", DefaultImage, {"rm"}), answer)

\* lines 134-148: render the template and images.build(tag=docker_image)
InitBuild ==
    /\ pc = "init_build"
    /\ \/ \* built and tagged
          /\ calls' = Append(calls, ImageBuild("ok"))
          /\ images' = images \cup {DefaultImage}
          /\ pc' = "init_verify"
          /\ UNCHANGED err
       \/ \* the call returns, the image is not there
          /\ calls' = Append(calls, ImageBuild("ok"))
          /\ pc' = "init_verify"
          /\ UNCHANGED <<err, images>>
       \/ \* docker.errors.BuildError
          /\ calls' = Append(calls, ImageBuild("BuildError"))
          /\ Fail("ProviderNotConfiguredError")
          /\ UNCHANGED images
       \/ \* docker.errors.APIError
          /\ calls' = Append(calls, ImageBuild("APIError"))
          /\ Fail("ProviderClientError")
          /\ UNCHANGED images
    /\ UNCHANGED <<op, ret, provVars, instStatus, instPending, waitVars,
                   execVars, ghostVars>>
    /\ UNCHANGED <<drvVars, tarVars>>
    /\ UNCHANGED factVars

\* line 151 with the image taken to exist after a build that returned
BuiltImageAssumed == FALSE

\* line 151: if not _image_exists(client=self._client, name=docker_image)
BuiltImageMissing == ~_image_exists(DefaultImage)

\* lines 150-155: the built image must exist now
InitVerify ==
    /\ pc = "init_verify"
    /\ \/ /\ calls' = Append(calls,
                      ImageLookup(DefaultImage,
                                  IF _image_exists(DefaultImage)
                                  THEN "found" ELSE "missing"))
          /\ IF BuiltImageMissing
             THEN /\ Fail("ProviderClientError")
                  /\ UNCHANGED docker_image
             ELSE /\ docker_image' = DefaultImage
                  /\ pc' = "init_run"
                  /\ UNCHANGED err
       \/ /\ calls' = Append(calls, ImageLookup(DefaultImage, "error"))
          /\ Fail("ProviderClientError")
          /\ UNCHANGED docker_image
    /\ UNCHANGED <<op, ret, cli_args, hostSystem, _container, backendVars,
                   waitVars, execVars, ghostVars>>
    /\ UNCHANGED <<drvVars, tarVars>>
    /\ UNCHANGED factVars

\* ---- instance creation, readiness wait, bootstrap (docker.py:161-191) ----

\* lines 168-181: containers.run(image, '/bin/bash', name, detach, stdin_open,
\* tty), then the call of the waiter. The daemon refuses a name that is in
\* use; that error is not handled by the constructor.
InitRun ==
    /\ pc = "init_run"
    /\ calls' = Append(calls,
                 [Call("containers.run", docker_image,
                       {"detach", "stdin_open", "tty"})
                  EXCEPT !.nameInUse = (instStatus # Absent)])
    /\ \/ /\ instStatus = Absent
          /\ docker_image \in images
          /\ instStatus' \in {"created", "running"}
          /\ instPending' = FALSE
          /\ _container' = Handle
          /\ wCaller' = "ctor"
          /\ wContainer' = Handle
          /\ wStatus' = {DOCKER_CONTAINER_STATUS_RUNNING}
          /\ timeout' = CONTAINER_START_TIMEOUT
          /\ pc' = "w_args"
          /\ UNCHANGED err
       \/ /\ Fail("docker.errors.APIError")
          /\ UNCHANGED <<instStatus, instPending, _container, wCaller,
                         wContainer, wStatus, timeout>>
    /\ UNCHANGED <<op, ret, cli_args, hostSystem, docker_image, images,
                   t_start, now, cStatus, observed, sleeps, execVars,
                   ghostVars>>
    /\ UNCHANGED <<drvVars, tarVars>>
    /\ UNCHANGED factVars

\* line 186: exec_run(cmd=['mkdir', '-p', WS_DIR]) with the exit code it
\* returned or the exception it raised
Mkdir(answer) ==
    Answered([Call("exec_run", "mkdir -p", {}) EXCEPT !.dir = WS_DIR], answer)

\* an exit code as the text of a call's outcome
ExitText(exit_code) == IF exit_code = 0 THEN "exit 0" ELSE "exit non-zero"

\* line 187 with the exit code of the command ignored
MkdirNeverFailed(exit_code) == FALSE

\* line 187: if exit_code != 0
MkdirFailed(exit_code) == exit_code # 0

\* lines 186-190: exec_run(['mkdir', '-p', WS_DIR]); the daemon refuses an
\* exec in an instance that is not running
InitMkdir ==
    /\ pc = "init_mkdir"
    /\ \/ /\ instStatus = "running"
          /\ \E exit_code \in {0, 1} :
               /\ calls' = Append(calls, Mkdir(ExitText(exit_code)))
               /\ IF MkdirFailed(exit_code)
                  THEN /\ Fail("ProviderClientError")
                       /\ UNCHANGED wsCreated
                  ELSE /\ wsCreated' = (exit_code = 0)
                       /\ pc' = "ready"
                       /\ UNCHANGED err
       \/ /\ instStatus # "running"
          /\ calls' = Append(calls, Mkdir("APIError"))
          /\ Fail("docker.errors.APIError")
          /\ UNCHANGED wsCreated
    /\ UNCHANGED <<op, ret, provVars, backendVars, waitVars, execVars,
                   reachedRunning, evictFound, emptyEvictions>>
    /\ UNCHANGED <<drvVars, tarVars>>
    /\ UNCHANGED factVars

\* the process that asked for the provider ends; the backend keeps its state
Discard ==
    /\ pc \in {"failed", "ready", "w_done", "foreign", "registered"}
    /\ pc' = "idle"
    /\ op' = "none"
    /\ err' = "none"
    /\ ret' = <<>>
    /\ cli_args' = [docker_image |-> "", docker_force_build |-> FALSE]
    /\ hostSystem' = "Linux"
    /\ _container' = Unset
    /\ docker_image' = Unset
    /\ calls' = <<>>
    /\ wCaller' = "none"
    /\ wContainer' = None
    /\ wStatus' = {}
    /\ timeout' = 0
    /\ t_start' = 0
    /\ now' = 0
    /\ cStatus' = "none"
    /\ observed' = <<>>
    /\ sleeps' = 0
    /\ command' = "none"
    /\ execExit' = <<>>
    /\ received' = <<>>
    /\ logSink' = <<>>
    /\ reachedRunning' = FALSE
    /\ wsCreated' = FALSE
    /\ evictFound' = "none"
    /\ dpc' = "none"
    /\ dlog' = <<>>
    /\ decorators' = <<>>
    /\ selected' = {}
    /\ context_args' = [debug |-> FALSE, shell_after |-> FALSE]
    /\ build_exit_code' = <<>>
    /\ mainRet' = <<>>
    /\ version_info' = NoVersion
    /\ archive' = <<>>
    /\ written' = {}
    /\ UNCHANGED <<backendVars, emptyEvictions>>
    /\ argsCalled' = {}
    /\ created' = NoCreate
    /\ UNCHANGED _providers

\* ======================================================================
\* operations of a constructed provider (docker.py:208-269)
\* ======================================================================

\* _check_instance with only the hasattr test
NotConfiguredNoNone == _container = Unset

\* _check_instance (docker.py:208-210) raises exactly when this holds
NotConfigured == _container = Unset \/ _container = None

\* a call of an operation begins: the locals of earlier calls are gone
OpBegin(name) ==
    /\ op' = name
    /\ ret' = <<>>
    /\ wCaller' = "none"
    /\ wContainer' = None
    /\ wStatus' = {}
    /\ timeout' = 0
    /\ t_start' = 0
    /\ now' = 0
    /\ cStatus' = "none"
    /\ observed' = <<>>
    /\ sleeps' = 0
    /\ execExit' = <<>>
    /\ received' = <<>>
    /\ logSink' = <<>>
    /\ evictFound' = "none"

\* ---- _recursive_get (docker.py:327-341) ----

\* the Python runtimes the provider is run on
Runtimes == {<<3, 11>>, <<3, 12>>}

\* line 338: the version the extraction filter is asked for from
FilterSince == <<3, 12>>

\* comparison of version tuples, as Python compares tuples
VersionAtLeast(v, w) == v[1] > w[1] \/ (v[1] = w[1] /\ v[2] >= w[2])

\* member names of an archive: absolute or relative, as path components
Members ==
    {[abs |-> FALSE, parts |-> <<"d", "..", "b">>],
     [abs |-> FALSE, parts |-> <<"..", "..", "etc", "passwd">>],
     [abs |-> TRUE, parts |-> <<"etc", "passwd">>]}

Archives == UNION {[1..n -> Members] : n \in 0..MaxMembers}

\* where the components lead from the destination root: the path left after
\* resolving "..", and whether the walk left the root
RECURSIVE Walk(_, _, _)
Walk(parts, stack, out) ==
    IF parts = <<>> THEN [outside |-> out, path |-> stack]
    ELSE IF Head(parts) = ".."
         THEN IF stack = <<>>
              THEN Walk(Tail(parts), <<>>, TRUE)
              ELSE Walk(Tail(parts), SubSeq(stack, 1, Len(stack) - 1), out)
         ELSE Walk(Tail(parts), Append(stack, Head(parts)), out)

\* the file a member is written to: os.path.join(path, name) lets an
\* absolute name replace the destination
Target(member) ==
    IF member.abs THEN [outside |-> TRUE, path |-> member.parts]
    ELSE Walk(member.parts, <<>>, FALSE)

\* the "data" filter strips the leading separator of a member name
DataFilter(member) == [member EXCEPT !.abs = FALSE]

\* extractall: the members in archive order; with the "data" filter a member
\* that resolves outside the destination raises and ends the extraction,
\* the members before it stay written
RECURSIVE ExtractAll(_, _, _)
ExtractAll(members, filtered, done) ==
    IF members = <<>> THEN [written |-> done, err |-> "none"]
    ELSE IF filtered
         THEN IF Target(DataFilter(Head(members))).outside
              THEN [written |-> done,
                    err |-> "tarfile.OutsideDestinationError"]
              ELSE ExtractAll(Tail(members), filtered,
                              done \cup {Target(DataFilter(Head(members)))})
         ELSE ExtractAll(Tail(members), filtered,
                         done \cup {Target(Head(members))})

\* line 338 with the filter never asked for
UsesDataFilterNever == FALSE

\* line 338: if sys.version_info >= (3, 12)
UsesDataFilter == VersionAtLeast(version_info', FilterSince)

\* the extraction of an earlier _recursive_get is over
TarReset ==
    /\ version_info' = NoVersion
    /\ archive' = <<>>
    /\ written' = {}

\* line 191 was the last statement of __init__: the constructor returns the
\* provider to its caller, its locals and those of the waiter are gone
InitReturn ==
    /\ dpc = "none"
    /\ pc = "ready"
    /\ op = "__init__"
    /\ OpBegin("constructed")
    /\ calls' = <<>>
    /\ UNCHANGED <<pc, err, command, provVars, backendVars>>
    /\ UNCHANGED keptGhosts
    /\ UNCHANGED <<drvVars, tarVars>>
    /\ UNCHANGED factVars

\* ---- execute_command (docker.py:223-237) ----

\* l.decode('utf-8') succeeds on well-formed UTF-8 only
RECURSIVE WellFormed(_)
WellFormed(c) ==
    IF c = <<>> THEN TRUE
    ELSE IF Head(c) \in {"a", "nl"} THEN WellFormed(Tail(c))
    ELSE IF Head(c) = "hi"
         THEN Len(c) >= 2 /\ c[2] = "lo" /\ WellFormed(Tail(Tail(c)))
    ELSE FALSE

\* l.decode('utf-8'): the characters of a well-formed chunk
RECURSIVE Decode(_)
Decode(c) ==
    IF c = <<>> THEN <<>>
    ELSE IF Head(c) = "a" THEN <<"a">> \o Decode(Tail(c))
    ELSE IF Head(c) = "nl" THEN <<"\n">> \o Decode(Tail(c))
    ELSE <<"e'">> \o Decode(Tail(Tail(c)))

\* .rstrip('\n')
RECURSIVE RStrip(_)
RStrip(t) ==
    IF t = <<>> THEN <<>>
    ELSE IF t[Len(t)] = "\n" THEN RStrip(SubSeq(t, 1, Len(t) - 1))
    ELSE t

\* a sink that puts the newest record first
SinkWriteFront(log, record) == <<record>> \o log

\* self.logger_instance.debug(record)
SinkWrite(log, record) == Append(log, record)

\* the exit code the process of a command ends with
ExitOf(cmd) ==
    CASE cmd = "/bin/true" -> {0}
      [] cmd = "/bin/false" -> {1}
      [] OTHER -> ExitCodes

\* the exit code reduced to failed / not failed
ExitCodeTruthy(exec_status) == IF exec_status[1] = 0 THEN 0 ELSE 1

\* exec_status['ExitCode']
ExitCodeField(exec_status) == exec_status[1]

\* line 225: _check_instance
ExecuteCommand ==
    /\ dpc = "none"
    /\ pc = "ready"
    /\ op # "__init__"
    /\ command' \in Commands
    /\ OpBegin("execute_command")
    /\ calls' = <<>>
    /\ IF NotConfigured
       THEN /\ err' = "ProviderNotConfiguredError"
            /\ UNCHANGED pc
       ELSE /\ err' = "none"
            /\ pc' = "x_create"
    /\ UNCHANGED <<provVars, backendVars>>
    /\ UNCHANGED keptGhosts
    /\ TarReset
    /\ UNCHANGED drvVars
    /\ UNCHANGED factVars

\* line 232: exec_create(name, command, tty=True, workdir=WS_DIR); the daemon
\* refuses an exec in an instance that is not running
ExecCreate ==
    /\ pc = "x_create"
    /\ calls' = Append(calls, [Call("exec_create", command, {"tty"})
                               EXCEPT !.dir = WS_DIR])
    /\ IF instStatus = "running"
       THEN /\ pc' = "x_start"
            /\ UNCHANGED err
       ELSE /\ pc' = "ready"
            /\ err' = "docker.errors.APIError"
    /\ UNCHANGED <<op, ret, provVars, backendVars, waitVars, execVars,
                   ghostVars>>
    /\ UNCHANGED <<drvVars, tarVars>>
    /\ UNCHANGED factVars

\* line 233: exec_start(exec_id, detach=False, stream=True)
ExecStart ==
    /\ pc = "x_start"
    /\ calls' = Append(calls, Call("exec_start", command, {"stream"}))
    /\ pc' = "x_drain"
    /\ UNCHANGED <<op, err, ret, provVars, backendVars, waitVars, execVars,
                   ghostVars>>
    /\ UNCHANGED <<drvVars, tarVars>>
    /\ UNCHANGED factVars

\* lines 234-235: one iteration of the loop over the stream
ExecDrainChunk ==
    /\ pc = "x_drain"
    /\ Len(received) < MaxChunks
    /\ \E l \in Chunks :
         /\ received' = Append(received, l)
         /\ IF WellFormed(l)
            THEN /\ logSink' = SinkWrite(logSink, RStrip(Decode(l)))
                 /\ UNCHANGED <<pc, err>>
            ELSE /\ pc' = "ready"
                 /\ err' = "UnicodeDecodeError"
                 /\ UNCHANGED logSink
    /\ UNCHANGED <<op, ret, provVars, backendVars, calls, waitVars, command,
                   execExit, ghostVars>>
    /\ UNCHANGED <<drvVars, tarVars>>
    /\ UNCHANGED factVars

\* line 234: the stream ends when the process has ended
ExecStreamEnd ==
    /\ pc = "x_drain"
    /\ \E code \in ExitOf(command) : execExit' = <<code>>
    /\ pc' = "x_inspect"
    /\ UNCHANGED <<op, err, ret, provVars, backendVars, calls, waitVars,
                   command, received, logSink, ghostVars>>
    /\ UNCHANGED <<drvVars, tarVars>>
    /\ UNCHANGED factVars

\* lines 236-237: exec_inspect(exec_id) and return of its ExitCode
ExecInspect ==
    /\ pc = "x_inspect"
    /\ calls' = Append(calls, Call("exec_inspect", command, {}))
    /\ ret' = <<ExitCodeField(execExit)>>
    /\ pc' = "ready"
    /\ UNCHANGED <<op, err, provVars, backendVars, waitVars, execVars,
                   ghostVars>>
    /\ UNCHANGED <<drvVars, tarVars>>
    /\ UNCHANGED factVars

\* ---- the other operations ----

\* _copy_from_instance_to_host (docker.py:239-242) with _recursive_get
\* (docker.py:327-341): get_archive, then the extraction under host_path
CopyFromInstanceToHost ==
    /\ dpc = "none"
    /\ pc = "ready"
    /\ op # "__init__"
    /\ OpBegin("_copy_from_instance_to_host")
    /\ IF NotConfigured
       THEN /\ err' = "ProviderNotConfiguredError"
            /\ calls' = <<>>
            /\ TarReset
       ELSE /\ calls' = <<Call("get_archive", "instance_path", {})>>
            /\ \/ /\ err' = "docker.errors.NotFound"
                  /\ TarReset
               \/ /\ version_info' \in Runtimes
                  /\ archive' \in Archives
                  /\ LET done == ExtractAll(archive', UsesDataFilter, {})
                     IN  /\ written' = done.written
                         /\ err' = done.err
    /\ UNCHANGED <<pc, provVars, backendVars, command>>
    /\ UNCHANGED keptGhosts
    /\ UNCHANGED drvVars
    /\ UNCHANGED factVars

\* _copy_from_host_to_instance (docker.py:244-247) with _recursive_put
\* (docker.py:301-324)
CopyFromHostToInstance ==
    /\ dpc = "none"
    /\ pc = "ready"
    /\ op # "__init__"
    /\ OpBegin("_copy_from_host_to_instance")
    /\ IF NotConfigured
       THEN /\ err' = "ProviderNotConfiguredError"
            /\ calls' = <<>>
       ELSE \E isdir \in BOOLEAN, put_ok \in BOOLEAN :
              IF ~isdir
              THEN /\ err' = "NotADirectoryError"
                   /\ calls' = <<>>
              ELSE /\ calls' = <<Call("put_archive", "remote_path", {})>>
                   /\ err' = IF put_ok THEN "none" ELSE "ProviderClientError"
    /\ UNCHANGED <<pc, provVars, backendVars, command>>
    /\ UNCHANGED keptGhosts
    /\ TarReset
    /\ UNCHANGED drvVars
    /\ UNCHANGED factVars

\* _write_in_instance (docker.py:249-264)
WriteInInstance ==
    /\ dpc = "none"
    /\ pc = "ready"
    /\ op # "__init__"
    /\ OpBegin("_write_in_instance")
    /\ IF NotConfigured
       THEN /\ err' = "ProviderNotConfiguredError"
            /\ calls' = <<>>
       ELSE \E put_ok \in BOOLEAN :
              /\ calls' = <<Call("put_archive", "dst_path", {})>>
              /\ err' = IF put_ok THEN "none" ELSE "ProviderClientError"
    /\ UNCHANGED <<pc, provVars, backendVars, command>>
    /\ UNCHANGED keptGhosts
    /\ TarReset
    /\ UNCHANGED drvVars
    /\ UNCHANGED factVars

\* shell (docker.py:266-269): subprocess.run(['docker', 'exec', '-ti', ...]),
\* whose exit status is not looked at
Shell ==
    /\ dpc = "none"
    /\ pc = "ready"
    /\ op # "__init__"
    /\ OpBegin("shell")
    /\ IF NotConfigured
       THEN /\ err' = "ProviderNotConfiguredError"
            /\ calls' = <<>>
       ELSE /\ calls' = <<Call("docker exec", "/bin/bash", {"t", "i"})>>
            /\ err' = "none"
    /\ UNCHANGED <<pc, provVars, backendVars, command>>
    /\ UNCHANGED keptGhosts
    /\ TarReset
    /\ UNCHANGED drvVars
    /\ UNCHANGED factVars

\* line 213: containers.get(self.instance_name), which returns the instance
\* or raises NotFound
CleanLookup(answer) ==
    Answered(Call("containers.get", instance_name, {}), answer)

\* line 215: container.remove(v=True, force=True)
CleanRemove(answer) ==
    Answered(Call("container.remove", instance_name, {"v", "force"}), answer)

\* _clean_instance (docker.py:212-217): containers.get raises NotFound when
\* there is no such instance; otherwise remove(v=True, force=True) and the
\* handle is cleared
CleanInstance ==
    /\ dpc = "none"
    /\ pc = "ready"
    /\ op # "__init__"
    /\ OpBegin("_clean_instance")
    /\ IF instStatus = Absent
       THEN /\ calls' = <<CleanLookup("NotFound")>>
            /\ err' = "docker.errors.NotFound"
            /\ UNCHANGED <<_container, backendVars>>
       ELSE /\ \/ /\ calls' = <<CleanLookup("found"), CleanRemove("ok")>>
                  /\ instStatus' = Absent
                  /\ instPending' = FALSE
                  /\ _container' = None
                  /\ err' = "none"
               \/ /\ calls' = <<CleanLookup("found"), CleanRemove("ok")>>
                  /\ instStatus' \in {instStatus, "removing"}
                  /\ instPending' = TRUE
                  /\ _container' = None
                  /\ err' = "none"
               \/ /\ calls' = <<CleanLookup("found"),
                                 CleanRemove("APIError")>>
                  /\ err' = "docker.errors.APIError"
                  /\ UNCHANGED <<_container, instStatus, instPending>>
            /\ UNCHANGED images
    /\ UNCHANGED <<pc, cli_args, hostSystem, docker_image, command>>
    /\ UNCHANGED keptGhosts
    /\ TarReset
    /\ UNCHANGED drvVars
    /\ UNCHANGED factVars

\* a pending removal finishes in the daemon
BackendRemovalCompletes ==
    /\ instPending
    /\ instStatus' = Absent
    /\ instPending' = FALSE
    /\ UNCHANGED <<pc, op, err, ret, calls, provVars, images, waitVars,
                   execVars, ghostVars>>
    /\ UNCHANGED <<drvVars, tarVars>>
    /\ UNCHANGED factVars

\* ======================================================================
\* BuildInContainerVerb (verb/build_in_container.py:60-125)
\* ======================================================================

\* the packages get_packages discovered, in the order it returned them
Packages == {"pkg_a", "pkg_b"}

Discovered == <<"pkg_a", "pkg_b">>

\* one call the driver made on the provider or on rosdep: its name, its
\* argument, the exit code it returned (<<>> when none) and the exception it
\* raised ("" when none)
DEvent(ev, arg, code, exc) == [ev |-> ev, arg |-> arg, code |-> code, exc |-> exc]

\* the driver leaves the provider as it is
ProviderUntouched ==
    UNCHANGED <<pc, op, err, ret, calls, provVars, backendVars, waitVars,
                execVars, ghostVars, tarVars>>

\* an exception no handler of main catches
Crash ==
    /\ dpc' = "crashed"
    /\ UNCHANGED <<build_exit_code, mainRet>>

\* lines 99-106: the provider is constructed, then Rosdep(...), rosdep.update()
\* and get_packages(...)
MainStart ==
    /\ dpc = "none"
    /\ pc = "ready"
    /\ op = "constructed"
    /\ OpBegin("main")
    /\ calls' = <<>>
    /\ TarReset
    /\ dlog' = <<DEvent("rosdep.update", "", <<>>, "")>>
    /\ decorators' = Discovered
    /\ selected' \in SUBSET Packages
    /\ dpc' = "upload"
    /\ UNCHANGED <<pc, err, command, provVars, backendVars>>
    /\ UNCHANGED keptGhosts
    /\ UNCHANGED <<context_args, build_exit_code, mainRet>>
    /\ UNCHANGED factVars

\* line 109 with no package skipped
SkipNoPackage(decorator) == FALSE

\* line 109: if not decorator.selected
SkipPackage(decorator) == decorator \notin selected

\* lines 107-111: one round of the loop over the decorators
MainUpload ==
    /\ dpc = "upload"
    /\ decorators # <<>>
    /\ decorators' = Tail(decorators)
    /\ IF SkipPackage(Head(decorators))
       THEN UNCHANGED <<dpc, dlog, build_exit_code, mainRet>>
       ELSE \/ /\ dlog' = Append(dlog, DEvent("upload_package",
                                              Head(decorators), <<>>, ""))
               /\ UNCHANGED <<dpc, build_exit_code, mainRet>>
            \/ /\ dlog' = Append(dlog, DEvent("upload_package",
                                              Head(decorators), <<>>,
                                              "ProviderClientError"))
               /\ Crash
    /\ UNCHANGED <<selected, context_args>>
    /\ ProviderUntouched
    /\ UNCHANGED factVars

\* line 82 with only the exit code 1 taken as a failure
BuildFailedOnOne(exit_code) == exit_code = 1

\* line 82: if exit_code
BuildFailed(exit_code) == exit_code # 0

\* lines 80-83: one command of _build; a failing one ends _build with its
\* exit code (line 83), which main stores in build_exit_code (line 116)
BuildCommand(ev, arg, then) ==
    /\ \/ \E exit_code \in ExitCodes :
            /\ dlog' = Append(dlog, DEvent(ev, arg, <<exit_code>>, ""))
            /\ IF BuildFailed(exit_code)
               THEN /\ build_exit_code' = <<exit_code>>
                    /\ dpc' = "built"
               ELSE /\ dpc' = then
                    /\ UNCHANGED build_exit_code
            /\ UNCHANGED mainRet
       \/ \* the command raised, e.g. UnicodeDecodeError of line 235
          /\ dlog' = Append(dlog, DEvent(ev, arg, <<>>, "Exception"))
          /\ Crash
    /\ UNCHANGED <<decorators, selected, context_args>>
    /\ ProviderUntouched

\* line 116 entering _build, lines 73-78 and 81: rosdep.install([...])
BuildInstall ==
    /\ dpc = "upload"
    /\ decorators = <<>>
    /\ BuildCommand("rosdep.install", "build", "colcon")
    /\ UNCHANGED factVars

\* lines 60-64, 79 and 81: execute_commands(['colcon ... build ...'])
BuildColcon ==
    /\ dpc = "colcon"
    /\ BuildCommand("execute_commands", "colcon build", "dl_install")
    /\ UNCHANGED factVars

\* lines 85-94: one download_result of _build; FileNotFoundInInstanceError
\* becomes the exit code 1, any other exception is not caught; when the last
\* download returned, _build returns 0
BuildDownload(path, then) ==
    /\ \/ /\ dlog' = Append(dlog, DEvent("download_result", path, <<>>, ""))
          /\ dpc' = then
          /\ build_exit_code' = IF then = "built" THEN <<0>>
                                ELSE build_exit_code
          /\ UNCHANGED mainRet
       \/ /\ dlog' = Append(dlog, DEvent("download_result", path, <<>>,
                                         "FileNotFoundInInstanceError"))
          /\ build_exit_code' = <<1>>
          /\ dpc' = "built"
          /\ UNCHANGED mainRet
       \/ /\ dlog' = Append(dlog, DEvent("download_result", path, <<>>,
                                         "ProviderClientError"))
          /\ Crash
    /\ UNCHANGED <<decorators, selected, context_args>>
    /\ ProviderUntouched

\* lines 86-88
BuildDownloadInstall ==
    /\ dpc = "dl_install"
    /\ BuildDownload("/ws/install", "dl_build")
    /\ UNCHANGED factVars

\* lines 89-91 and 94
BuildDownloadBuild ==
    /\ dpc = "dl_build"
    /\ BuildDownload("/ws/build", "built")
    /\ UNCHANGED factVars

\* lines 117-123 with the shell opened only for a failed build under debug
OpensShellOnDebugOnly(code, debug, shell_after) == code # 0 /\ debug

\* lines 117 and 121: if build_exit_code and debug ... elif shell_after
OpensShell(code, debug, shell_after) == (code # 0 /\ debug) \/ shell_after

\* lines 117-125: the shell when asked for, then return build_exit_code;
\* shell() is DockerClient.shell (docker.py:266-269), whose subprocess.run
\* does not look at the exit status of the session
MainFinish ==
    /\ dpc = "built"
    /\ \E debug \in BOOLEAN, shell_after \in BOOLEAN :
         /\ context_args' = [debug |-> debug, shell_after |-> shell_after]
         /\ IF OpensShell(build_exit_code[1], debug, shell_after)
            THEN IF NotConfigured
                 THEN /\ dlog' = Append(dlog,
                                   DEvent("shell", "", <<>>,
                                          "ProviderNotConfiguredError"))
                      /\ Crash
                      /\ UNCHANGED calls
                 ELSE /\ calls' = <<Call("docker exec", "/bin/bash",
                                         {"t", "i"})>>
                      /\ \/ \E status \in ExitCodes :
                              /\ dlog' = Append(dlog,
                                           DEvent("shell", "", <<status>>, ""))
                              /\ mainRet' = build_exit_code
                              /\ dpc' = "done"
                              /\ UNCHANGED build_exit_code
                         \/ \* the docker executable cannot be started
                            /\ dlog' = Append(dlog,
                                         DEvent("shell", "", <<>>, "OSError"))
                            /\ Crash
            ELSE /\ mainRet' = build_exit_code
                 /\ dpc' = "done"
                 /\ UNCHANGED <<dlog, calls, build_exit_code>>
    /\ UNCHANGED <<decorators, selected>>
    /\ UNCHANGED <<pc, op, err, ret, provVars, backendVars, waitVars,
                   execVars, ghostVars, tarVars>>
    /\ UNCHANGED factVars

\* ======================================================================
\* the backend changes on its own
\* ======================================================================

\* the instance's process starts, ends or is restarted
BackendStatusChange ==
    /\ instStatus \in {"created", "running", "exited"}
    /\ ~instPending
    /\ instStatus' \in CASE instStatus = "created" -> {"running", "exited"}
                         [] instStatus = "running" -> {"exited"}
                         [] OTHER -> {"running"}
    /\ UNCHANGED <<pc, op, err, ret, calls, provVars, instPending, images,
                   waitVars, execVars, ghostVars>>
    /\ UNCHANGED <<drvVars, tarVars>>
    /\ UNCHANGED factVars

\* another client of the daemon removes the instance (docker rm -f, or the
\* eviction step of another construction with the same name) while the
\* provider that created it is between two operations
BackendInstanceRemoved ==
    /\ pc = "ready"
    /\ op # "__init__"
    /\ dpc = "none"
    /\ instStatus # Absent
    /\ instStatus' = Absent
    /\ instPending' = FALSE
    /\ UNCHANGED <<pc, op, err, ret, calls, provVars, images, waitVars,
                   execVars, ghostVars>>
    /\ UNCHANGED <<drvVars, tarVars>>
    /\ UNCHANGED factVars

Next ==
    \/ Register
    \/ RegisterArgs
    \/ FactoryCreate
    \/ InitHostCheck
    \/ InitClient
    \/ EvictLookup
    \/ EvictRemove
    \/ ConfirmLookup
    \/ InitUserImage
    \/ InitForceCheck
    \/ InitImageRemove
    \/ InitImageCheck
    \/ InitBuild
    \/ InitVerify
    \/ InitRun
    \/ InitMkdir
    \/ InitReturn
    \/ Discard
    \/ ExecuteCommand
    \/ ExecCreate
    \/ ExecStart
    \/ ExecDrainChunk
    \/ ExecStreamEnd
    \/ ExecInspect
    \/ CopyFromInstanceToHost
    \/ CopyFromHostToInstance
    \/ WriteInInstance
    \/ Shell
    \/ CleanInstance
    \/ BackendRemovalCompletes
    \/ MainStart
    \/ MainUpload
    \/ BuildInstall
    \/ BuildColcon
    \/ BuildDownloadInstall
    \/ BuildDownloadBuild
    \/ MainFinish
    \/ WaitCall
    \/ WaitEnter
    \/ WaitSleep
    \/ WaitReload
    \/ WaitExit
    \/ BackendStatusChange
    \/ BackendInstanceRemoved

Spec == Init /\ [][Next]_vars

\* ======================================================================
\* properties
\* ======================================================================

\* ---- the status waiter ----

LastObserved == observed[Len(observed)]

\* the waiter has raised its time-out error
WaitTimedOut ==
    /\ Len(observed) > 0
    /\ \/ pc = "w_done" /\ err = "ProviderClientError"
       \/ pc = "failed" /\ wCaller = "ctor" /\ ~reachedRunning

\* the waiter has returned normally
WaitReturnedOk ==
    \/ pc = "w_done" /\ err = "none"
    \/ pc = "init_mkdir"

\* C1: a wait whose instance never shows an acceptable status stops polling
\* once the deadline t_start + timeout has passed: no sleep is begun at or
\* after the deadline, and the error raised reports the last status read,
\* which is not an acceptable one.
C1_StopsAtDeadline ==
    /\ pc = "w_reload" => (now - POLL_INTERVAL) < t_start + timeout
    /\ WaitTimedOut => (cStatus = LastObserved /\ cStatus \notin wStatus)

\* C2: the waiter returns without error at the first acceptable observation:
\* after k sleeps and k+1 refreshes, none of the earlier observations being
\* acceptable, with no sleep or refresh after it; and it never gives up with
\* fewer than `timeout` sleeps, so an instance that becomes acceptable after
\* k < timeout poll intervals is seen.
C2_WaitSuccess ==
    /\ \A i \in 1..(Len(observed) - 1) : observed[i] \notin wStatus
    /\ pc = "w_reload" => LastObserved \notin wStatus
    /\ pc = "w_loop" => Len(observed) = sleeps + 1
    /\ WaitReturnedOk =>
         /\ Len(observed) = sleeps + 1
         /\ LastObserved \in wStatus
    /\ WaitTimedOut =>
         /\ sleeps >= timeout
         /\ LastObserved \notin wStatus

\* the instance was 'created' for two poll intervals, then 'running'
C2_Witness ==
    /\ pc = "init_mkdir"
    /\ timeout = CONTAINER_START_TIMEOUT
    /\ sleeps = 2
    /\ observed = <<"created", "created", "running">>

\* C3: a direct call of the waiter with no container or with a negative
\* timeout raises ValueError, which is not the error of a time-out, and does
\* no refresh and no sleep.
C3_InvalidArgsRejected ==
    (op = "_wait_for_container_status" /\ (wContainer = None \/ timeout < 0))
      => /\ observed = <<>>
         /\ sleeps = 0
         /\ pc \in {"w_args", "w_done"}
         /\ pc = "w_done" => err = "ValueError"
         /\ err # "ProviderClientError"

C3_Witness ==
    /\ pc = "w_done"
    /\ wContainer = Handle
    /\ timeout < 0
    /\ err = "ValueError"
    /\ observed = <<>>

\* ---- execute_command ----

\* the names of the calls issued so far, in order
CallSeq == [i \in 1..Len(calls) |-> calls[i].op]

IsPrefix(a, b) == Len(a) <= Len(b) /\ SubSeq(b, 1, Len(a)) = a

\* what one chunk looks like in the log: its text without trailing newlines
Logged(chunk) == RStrip(Decode(chunk))

\* C4: execute_command issues exec_create (tty on, working directory /ws),
\* then exec_start, then drains the stream, then exec_inspect, in this order;
\* the log sink holds the chunks received, in the order of receipt, and holds
\* all of them when exec_inspect is issued and when the call returns.
C4_ExecProtocolOrder ==
    op = "execute_command" =>
      /\ IsPrefix(CallSeq, <<"exec_create", "exec_start", "exec_inspect">>)
      /\ Len(calls) >= 1 =>
           /\ calls[1].target = command
           /\ "tty" \in calls[1].opts
           /\ calls[1].dir = WS_DIR
      /\ Len(received) > 0 => Len(calls) >= 2
      /\ Len(logSink) <= Len(received)
      /\ \A i \in 1..Len(logSink) : logSink[i] = Logged(received[i])
      /\ (pc = "x_inspect" \/ "exec_inspect" \in CallNames
            \/ (pc = "ready" /\ err = "none"))
           => /\ execExit # <<>>
              /\ Len(logSink) = Len(received)
      /\ (pc = "ready" /\ err = "none") => Len(calls) = 3

\* a call that returned after logging two different chunks
C4_Witness ==
    /\ op = "execute_command"
    /\ pc = "ready"
    /\ err = "none"
    /\ Len(calls) = 3
    /\ Len(received) = 2
    /\ received[1] # received[2]
    /\ logSink = <<Logged(received[1]), Logged(received[2])>>

\* C5: execute_command returns the exit code that exec_inspect reports after
\* the drain for the context it created (0 for /bin/true, 1 for /bin/false);
\* once the process has ended, whatever its exit code, the call returns it
\* and raises nothing.
C5_ExitCodeIsData ==
    (op = "execute_command" /\ pc = "ready") =>
      /\ err = "none" =>
           /\ ret = execExit
           /\ Len(ret) = 1
           /\ ret[1] \in ExitCodes
           /\ calls[Len(calls)].op = "exec_inspect"
           /\ calls[Len(calls)].target = calls[1].target
           /\ command = "/bin/true" => ret = <<0>>
           /\ command = "/bin/false" => ret = <<1>>
      /\ execExit # <<>> => err = "none"
      /\ err # "none" => ret = <<>>

\* a build that ended with exit code 2 had it returned as a value
C5_Witness ==
    /\ op = "execute_command"
    /\ pc = "ready"
    /\ err = "none"
    /\ command = "colcon build"
    /\ ret = <<2>>

\* ---- the configured-provider precondition ----

GuardedOps == {"execute_command", "_copy_from_instance_to_host",
               "_copy_from_host_to_instance", "_write_in_instance", "shell"}

\* the operation in progress, or just finished, passed _check_instance
OpAccepted == op \in GuardedOps /\ err # "ProviderNotConfiguredError"

\* C6: on a provider without an instance handle each of the five operations
\* raises ProviderNotConfiguredError and issues no backend call; an operation
\* that is accepted runs on a provider whose constructor saw the instance
\* 'running' and whose mkdir -p /ws exited with 0.
C6_NotConfigured ==
    /\ (op \in GuardedOps /\ NotConfigured) =>
         /\ pc = "ready"
         /\ err = "ProviderNotConfiguredError"
         /\ calls = <<>>
    /\ OpAccepted =>
         /\ _container = Handle
         /\ reachedRunning
         /\ wsCreated

\* shell refused after the handle was cleared
C6_Witness ==
    /\ op = "shell"
    /\ pc = "ready"
    /\ _container = None
    /\ err = "ProviderNotConfiguredError"
    /\ calls = <<>>

\* ---- construction: eviction ----

\* the containers.run requests of the construction in progress
RunCalls == {i \in 1..Len(calls) : calls[i].op = "containers.run"}

\* C7: whatever the backend held before (nothing, or a stale instance of the
\* same name in any status, its removal possibly unfinished at the re-query),
\* instance creation is never requested while an instance with the name
\* exists, and after a successful construction the only instance with the
\* name is the one it created.
C7_NameUnique ==
    op = "__init__" =>
      /\ \A i \in RunCalls : ~calls[i].nameInUse
      /\ pc = "ready" => (instStatus # Absent /\ ~instPending)

\* C8: the eviction step removes an instance it finds, whatever its status,
\* with remove(v=True, force=True); when the lookup answers 'not found' it
\* issues no remove call and raises nothing, however many times in a row it
\* runs against a backend without such an instance.
C8_Eviction ==
    op = "__init__" =>
      /\ (evictFound \in Statuses /\ pc # "init_evict_remove") =>
           /\ Len(calls) >= 3
           /\ calls[2].op = "containers.get"
           /\ calls[3].op = "container.remove"
           /\ calls[3].target = instance_name
           /\ calls[3].opts = {"v", "force"}
      /\ evictFound = Absent =>
           /\ "container.remove" \notin CallNames
           /\ Len(calls) = 2 => (pc = "init_confirm" /\ err = "none")
      /\ pc = "init_confirm" => err = "none"

\* the eviction ran twice in a row on a backend without the instance
C8_Witness ==
    /\ pc = "init_confirm"
    /\ evictFound = Absent
    /\ emptyEvictions >= 2
    /\ err = "none"
    /\ CallSeq = <<"from_env", "containers.get">>

\* an exited instance was found and removed with its volumes
C8_WitnessRemoved ==
    /\ pc = "init_confirm"
    /\ evictFound = "exited"
    /\ instStatus = Absent
    /\ calls[3].op = "container.remove"

\* ---- construction: base image ----

ImageGets == {i \in 1..Len(calls) : calls[i].op = "images.get"}

\* the answer of the first image lookup of the construction, "" if none yet
FirstImageAnswer ==
    IF FirstCall("images.get") = 0 THEN ""
    ELSE calls[FirstCall("images.get")].result

\* a construction without a caller-supplied image
DefaultBranch == op = "__init__" /\ cli_args.docker_image = ""

\* C9: without a caller-supplied image: (a) image present and no forced
\* rebuild: no image remove, no build, and the instance is started from the
\* existing image; (b) image present and forced rebuild: the remove call comes
\* strictly before the build call, and a construction that gets as far as
\* starting the instance has issued the build; (c) image absent: no remove,
\* at most one build, and exactly one once the instance is started.
C9_ImageReuse ==
    DefaultBranch =>
      /\ \A i \in ImageGets : calls[i].target = DefaultImage
      /\ \A i \in RunCalls : calls[i].target = DefaultImage
      /\ CountCalls("images.build") <= 1
      /\ CountCalls("images.remove") <= 1
      /\ (~cli_args.docker_force_build /\ FirstImageAnswer = "found") =>
           /\ "images.remove" \notin CallNames
           /\ "images.build" \notin CallNames
           /\ pc \in {"init_run", "w_args"} => docker_image = DefaultImage
      /\ (cli_args.docker_force_build /\ FirstImageAnswer = "found") =>
           /\ "images.build" \in CallNames =>
                /\ FirstCall("images.remove") > 0
                /\ FirstCall("images.remove") < FirstCall("images.build")
           /\ pc # "init_image_remove" =>
                FirstCall("images.remove") = FirstCall("images.get") + 1
           /\ (pc = "init_run" \/ RunCalls # {}) =>
                "images.build" \in CallNames
      /\ FirstImageAnswer = "missing" =>
           /\ "images.remove" \notin CallNames
           /\ (pc = "init_run" \/ RunCalls # {}) =>
                CountCalls("images.build") = 1

\* forced rebuild of an existing image: removed, rebuilt, instance requested
C9_Witness ==
    /\ DefaultBranch
    /\ cli_args.docker_force_build
    /\ CallSeq = <<"from_env", "containers.get", "containers.get",
                   "images.get", "images.remove", "images.get",
                   "images.build", "images.get", "containers.run">>
    /\ calls[4].result = "found"
    /\ calls[9].target = DefaultImage
    /\ _container = Handle

\* C10: with a caller-supplied image, construction never issues an image
\* build or an image remove, whatever the forced-rebuild flag (the flag
\* leaves a warning in the log); when the image is missing construction ends
\* with ProviderClientError and no instance is created; when it exists the
\* instance is started from exactly that image.
C10_UserImage ==
    (op = "__init__" /\ cli_args.docker_image # "") =>
      /\ "images.build" \notin CallNames
      /\ "images.remove" \notin CallNames
      /\ \A i \in ImageGets :
           /\ calls[i].target = cli_args.docker_image
           /\ calls[i].result = "missing" =>
                /\ pc = "failed"
                /\ err = "ProviderClientError"
                /\ RunCalls = {}
                /\ _container = None
           /\ cli_args.docker_force_build =>
                <<"warn", "forced rebuild ignored">> \in
                    {logSink[k] : k \in 1..Len(logSink)}
      /\ \A i \in RunCalls :
           /\ calls[i].target = cli_args.docker_image
           /\ calls[i - 1].op = "images.get"
           /\ calls[i - 1].result = "found"
      /\ ~cli_args.docker_force_build => logSink = <<>>

\* a forced rebuild was asked for a caller-supplied image that is missing
C10_Witness ==
    /\ op = "__init__"
    /\ cli_args = [docker_image |-> UserImage, docker_force_build |-> TRUE]
    /\ pc = "failed"
    /\ err = "ProviderClientError"
    /\ calls[Len(calls)].op = "images.get"
    /\ calls[Len(calls)].result = "missing"

\* ---- construction: host check and confirmation of the eviction ----

\* the calls of the construction that reach the backend for an instance or
\* an image
BackendWork ==
    {i \in 1..Len(calls) : calls[i].op # "from_env"}

\* C13: on a host that is not Linux construction ends with
\* ProviderDoesNotSupportHostOSError before the client is even initialised;
\* when the initialisation of the backend client fails it ends with
\* ProviderClientError; in both cases no instance lookup, instance removal,
\* image call or instance creation has been issued and no instance handle
\* is held.
C13_HostCheckFirst ==
    op = "__init__" =>
      /\ (hostSystem # "Linux" /\ pc # "init_host") =>
           /\ pc = "failed"
           /\ err = "ProviderDoesNotSupportHostOSError"
           /\ calls = <<>>
      /\ \A i \in 1..Len(calls) :
           (calls[i].op = "from_env" /\ calls[i].result = "Exception") =>
             /\ pc = "failed"
             /\ err = "ProviderClientError"
             /\ BackendWork = {}
             /\ _container = None
      /\ BackendWork # {} =>
           /\ hostSystem = "Linux"
           /\ calls[1].op = "from_env"
           /\ calls[1].result = "ok"

\* construction was refused on a host that is not Linux
C13_Witness ==
    /\ op = "__init__"
    /\ hostSystem = "Darwin"
    /\ pc = "failed"
    /\ err = "ProviderDoesNotSupportHostOSError"

\* the client could not be initialised on a Linux host
C13_WitnessClient ==
    /\ op = "__init__"
    /\ hostSystem = "Linux"
    /\ pc = "failed"
    /\ calls # <<>>
    /\ calls[Len(calls)].op = "from_env"
    /\ err = "ProviderClientError"

\* the lookups of the instance by name, in the order they were issued
ContainerGets == {i \in 1..Len(calls) : calls[i].op = "containers.get"}

\* the re-query of line 81: the lookup that follows the eviction's lookup
Requeries == {i \in ContainerGets : \E j \in ContainerGets : j < i}

\* C14: when the re-query after the eviction step reports an instance of the
\* target name with status 'running', construction ends with
\* ProviderClientError, the re-query is the last call it issued (no image
\* call, no instance creation) and no instance handle is held.
C14_UnconfirmedEvictionFatal ==
    op = "__init__" =>
      \A i \in Requeries :
        calls[i].result = DOCKER_CONTAINER_STATUS_RUNNING =>
          /\ pc = "failed"
          /\ err = "ProviderClientError"
          /\ i = Len(calls)
          /\ ImageGets = {}
          /\ RunCalls = {}
          /\ _container = None

\* a running instance was found, its removal was accepted but unfinished, and
\* the re-query still saw it running
C14_Witness ==
    /\ op = "__init__"
    /\ pc = "failed"
    /\ evictFound = "running"
    /\ CallSeq = <<"from_env", "containers.get", "container.remove",
                   "containers.get">>
    /\ calls[4].result = DOCKER_CONTAINER_STATUS_RUNNING
    /\ err = "ProviderClientError"

\* ---- construction: the image an instance is created from ----

\* the image the construction resolved: the caller's, or the default one
ResolvedImage ==
    IF cli_args.docker_image # "" THEN cli_args.docker_image
    ELSE DefaultImage

Builds == {i \in 1..Len(calls) : calls[i].op = "images.build"}

\* the construction ended with error e and created no instance
AbortedWith(e) ==
    /\ pc = "failed"
    /\ err = e
    /\ RunCalls = {}
    /\ _container = None

\* C15: every containers.run is issued for the resolved image, directly
\* after an existence check of that image that answered true; a build that
\* returned followed by a check that finds the image absent ends the
\* construction with ProviderClientError, a BuildError ends it with
\* ProviderNotConfiguredError and an APIError of the build with
\* ProviderClientError, each without creating an instance.
C15_RunFromConfirmedImage ==
    op = "__init__" =>
      /\ \A i \in RunCalls :
           /\ i > 1
           /\ calls[i].target = ResolvedImage
           /\ docker_image = ResolvedImage
           /\ calls[i - 1].op = "images.get"
           /\ calls[i - 1].target = ResolvedImage
           /\ calls[i - 1].result = "found"
      /\ \A i \in Builds :
           /\ calls[i].result = "BuildError" =>
                (i = Len(calls) /\ AbortedWith("ProviderNotConfiguredError"))
           /\ calls[i].result = "APIError" =>
                (i = Len(calls) /\ AbortedWith("ProviderClientError"))
           /\ (calls[i].result = "ok" /\ i < Len(calls)) =>
                /\ calls[i + 1].op = "images.get"
                /\ calls[i + 1].result = "missing" =>
                     (i + 1 = Len(calls) /\ AbortedWith("ProviderClientError"))

\* the build returned, the image was not there afterwards
C15_Witness ==
    /\ op = "__init__"
    /\ Builds # {}
    /\ calls[Len(calls)].op = "images.get"
    /\ calls[Len(calls)].result = "missing"
    /\ calls[Len(calls) - 1].op = "images.build"
    /\ calls[Len(calls) - 1].result = "ok"
    /\ AbortedWith("ProviderClientError")

\* an instance was created from an image built and then found
C15_WitnessBuilt ==
    /\ op = "__init__"
    /\ Builds # {}
    /\ RunCalls # {}
    /\ _container = Handle

\* ---- construction: the order of the steps ----

Mkdirs == {i \in 1..Len(calls) : calls[i].op = "exec_run"}

Removes == {i \in 1..Len(calls) : calls[i].op = "container.remove"}

ImageCalls ==
    {i \in 1..Len(calls) :
       calls[i].op \in {"images.get", "images.remove", "images.build"}}

\* every index of A lies before every index of B
Before(A, B) == \A i \in A, j \in B : i < j

\* C16: in every construction the calls come in the order client
\* initialisation, eviction lookup (and removal), confirmation, image
\* resolution, instance creation with stdin_open and tty, creation of /ws,
\* each step at most once and only after the previous one succeeded: the
\* confirmation did not see the instance running, the image was found, the
\* readiness wait observed 'running' before /ws is created; a construction
\* that returned a provider ran on Linux, issued each step exactly once,
\* and its last call is the /ws creation with exit code 0.
C16_LifecycleOrder ==
    op = "__init__" =>
      /\ CountCalls("from_env") <= 1
      /\ Cardinality(ContainerGets) <= 2
      /\ Cardinality(Removes) <= 1
      /\ Cardinality(RunCalls) <= 1
      /\ Cardinality(Mkdirs) <= 1
      /\ calls # <<>> => calls[1].op = "from_env"
      /\ Before(ContainerGets \cup Removes, ImageCalls \cup RunCalls)
      /\ Before(ContainerGets \ Requeries, Removes)
      /\ Before(Removes, Requeries)
      /\ Before(ImageCalls, RunCalls)
      /\ Before(RunCalls, Mkdirs)
      /\ ImageCalls # {} =>
           \E i \in Requeries :
             calls[i].result \notin {DOCKER_CONTAINER_STATUS_RUNNING,
                                     "APIError"}
      /\ \A i \in RunCalls :
           /\ {"stdin_open", "tty"} \subseteq calls[i].opts
           /\ calls[i - 1].result = "found"
      /\ \A i \in Mkdirs :
           /\ i - 1 \in RunCalls
           /\ calls[i].dir = WS_DIR
           /\ reachedRunning
           /\ LastObserved = DOCKER_CONTAINER_STATUS_RUNNING
      /\ pc = "init_mkdir" =>
           (reachedRunning /\ LastObserved = DOCKER_CONTAINER_STATUS_RUNNING)
      /\ pc = "ready" =>
           /\ hostSystem = "Linux"
           /\ Cardinality(ContainerGets) = 2
           /\ ImageCalls # {}
           /\ Cardinality(RunCalls) = 1
           /\ Len(calls) \in Mkdirs
           /\ calls[Len(calls)].result = "exit 0"
           /\ wsCreated
           /\ _container = Handle

\* a provider was returned after a stale instance was evicted and the image
\* was built
C16_Witness ==
    /\ op = "__init__"
    /\ pc = "ready"
    /\ CallSeq = <<"from_env", "containers.get", "container.remove",
                   "containers.get", "images.get", "images.build",
                   "images.get", "containers.run", "exec_run">>
    /\ sleeps > 0

\* ---- construction: readiness wait and bootstrap ----

\* the number of polls that fit in the start timeout
StartPolls == CONTAINER_START_TIMEOUT \div POLL_INTERVAL

\* C17: the /ws creation is only executed when the instance was seen
\* 'running' within the start timeout of the wait, that is after at most
\* CONTAINER_START_TIMEOUT seconds of sleeping; otherwise construction has
\* ended with ProviderClientError. A /ws creation that exits non-zero ends
\* the construction with ProviderClientError. In neither case is a provider
\* returned.
C17_ReadinessFatal ==
    (op = "__init__" /\ wCaller = "ctor") =>
      /\ (pc \in {"init_mkdir", "ready"} \/ Mkdirs # {}) =>
           sleeps <= StartPolls
      /\ (pc = "w_loop" /\ sleeps > StartPolls) => ~WaitLoopCond
      /\ WaitTimedOut => (err = "ProviderClientError" /\ Mkdirs = {})
      /\ \A i \in Mkdirs :
           calls[i].result = "exit non-zero" =>
             (pc = "failed" /\ err = "ProviderClientError")

\* ---- a time-out of the readiness wait ----

\* the construction ended because its readiness wait timed out
CtorWaitTimedOut == op = "__init__" /\ wCaller = "ctor" /\ WaitTimedOut

\* C18: when the readiness wait of a construction times out, the last call
\* issued is still the containers.run that created the instance (no stop, no
\* remove, nothing else follows it), the provider keeps the handle, and the
\* instance still exists in the backend with no removal under way.
C18_TimeoutAbortsOnlyWait ==
    CtorWaitTimedOut =>
      /\ err = "ProviderClientError"
      /\ Len(calls) \in RunCalls
      /\ \A i \in Removes : i < Len(calls)
      /\ _container = Handle
      /\ instStatus # Absent
      /\ ~instPending

\* after the time-out the instance it gave up on has started
C18_Witness ==
    /\ CtorWaitTimedOut
    /\ LastObserved = "created"
    /\ instStatus = DOCKER_CONTAINER_STATUS_RUNNING

\* ======================================================================
\* the build driver
\* ======================================================================

\* the positions in dlog of the calls named ev
DCalls(ev) == {i \in 1..Len(dlog) : dlog[i].ev = ev}

\* the positions of the downloads of path that returned
Downloaded(path) ==
    {i \in DCalls("download_result") : dlog[i].arg = path /\ dlog[i].exc = ""}

\* the positions of the downloads that found the path missing
DownloadMissing ==
    {i \in DCalls("download_result") :
       dlog[i].exc = "FileNotFoundInInstanceError"}

\* the exit codes the commands named ev returned
ExitsOf(ev) == {dlog[i].code[1] : i \in {j \in DCalls(ev) : dlog[j].code # <<>>}}

\* _build has returned
BuildDone == dpc \in {"built", "done"} \/ build_exit_code # <<>>

\* C11: once the build phase has returned, its exit code is 0 exactly when
\* dependency installation and the build command both returned 0 and both
\* downloads returned; it is the command's own exit code when installation
\* or the build returned non-zero; it is 1 when a download found its path
\* missing, and the driver has not crashed then; the value main returns is
\* this exit code.
C11_DriverExitCode ==
    BuildDone =>
      /\ build_exit_code # <<>>
      /\ build_exit_code[1] = 0 <=>
           /\ ExitsOf("rosdep.install") = {0}
           /\ ExitsOf("execute_commands") = {0}
           /\ Downloaded("/ws/install") # {}
           /\ Downloaded("/ws/build") # {}
      /\ \A c \in ExitsOf("rosdep.install") \cup ExitsOf("execute_commands") :
           c # 0 => build_exit_code[1] = c
      /\ DownloadMissing # {} => build_exit_code[1] = 1
      /\ Len(dlog) \in DownloadMissing => dpc \in {"built", "done"}
      /\ dpc = "done" => mainRet = build_exit_code

\* the build command exited with 2 and main returned 2
C11_Witness ==
    /\ dpc = "done"
    /\ ExitsOf("rosdep.install") = {0}
    /\ ExitsOf("execute_commands") = {2}
    /\ mainRet = <<2>>

\* /ws/build was missing in the instance and main returned 1
C11_WitnessMissing ==
    /\ dpc = "done"
    /\ Downloaded("/ws/install") # {}
    /\ DownloadMissing # {}
    /\ mainRet = <<1>>

\* the packages whose upload was requested
Uploaded == {dlog[i].arg : i \in DCalls("upload_package")}

\* the positions of the downloads of path, whatever their outcome
Downloads(path) == {i \in DCalls("download_result") : dlog[i].arg = path}

\* C19: in every run of the driver only selected packages are uploaded, each
\* at most once; dependency installation starts only when every selected
\* package has been uploaded, and the uploads, the installation, the build
\* command, the download of /ws/install and the download of /ws/build come
\* in this order, each at most once; after an installation that returned
\* non-zero the build command is never executed, and a download is only
\* attempted after installation and build both returned 0.
C19_DriverPhaseOrder ==
    dpc # "none" =>
      /\ Uploaded \subseteq selected
      /\ Cardinality(DCalls("upload_package")) = Cardinality(Uploaded)
      /\ Cardinality(DCalls("rosdep.install")) <= 1
      /\ Cardinality(DCalls("execute_commands")) <= 1
      /\ Cardinality(Downloads("/ws/install")) <= 1
      /\ Cardinality(Downloads("/ws/build")) <= 1
      /\ DCalls("rosdep.install") # {} => Uploaded = selected
      /\ Before(DCalls("upload_package"), DCalls("rosdep.install"))
      /\ Before(DCalls("rosdep.install"), DCalls("execute_commands"))
      /\ Before(DCalls("execute_commands"), Downloads("/ws/install"))
      /\ Before(Downloads("/ws/install"), Downloads("/ws/build"))
      /\ DCalls("execute_commands") # {} => ExitsOf("rosdep.install") = {0}
      /\ DCalls("download_result") # {} =>
           /\ ExitsOf("rosdep.install") = {0}
           /\ ExitsOf("execute_commands") = {0}
      /\ Downloads("/ws/build") # {} => Downloaded("/ws/install") # {}

\* one of two packages was selected and uploaded, and both downloads ran
C19_Witness ==
    /\ dpc = "built"
    /\ selected = {"pkg_b"}
    /\ Uploaded = {"pkg_b"}
    /\ Downloaded("/ws/install") # {}
    /\ Downloaded("/ws/build") # {}

\* the installation failed: no build command, no download
C19_WitnessShortCircuit ==
    /\ dpc = "built"
    /\ ExitsOf("rosdep.install") = {1}
    /\ DCalls("execute_commands") = {}
    /\ DCalls("download_result") = {}

\* C20: the driver opens the shell at most once, as the last thing it calls
\* and only after the build phase has returned; a run that returned opened
\* it exactly when (the build exit code is non-zero and debug is selected)
\* or shell-after is selected, and returned the build exit code, whatever
\* the exit status of the shell session.
C20_ShellAfterBuild ==
    dpc # "none" =>
      /\ Cardinality(DCalls("shell")) <= 1
      /\ \A i \in DCalls("shell") :
           /\ i = Len(dlog)
           /\ build_exit_code # <<>>
           /\ dpc \in {"done", "crashed"}
           /\ \/ build_exit_code[1] # 0 /\ context_args.debug
              \/ context_args.shell_after
      /\ dpc = "done" =>
           /\ mainRet = build_exit_code
           /\ DCalls("shell") # {} <=>
                \/ build_exit_code[1] # 0 /\ context_args.debug
                \/ context_args.shell_after
           /\ DCalls("shell") # {} =>
                calls = <<Call("docker exec", "/bin/bash", {"t", "i"})>>
           /\ DCalls("shell") = {} => calls = <<>>

\* shell-after on a successful build: the session ended with status 2 and the
\* driver returned 0
C20_Witness ==
    /\ dpc = "done"
    /\ context_args.shell_after
    /\ ~context_args.debug
    /\ DCalls("shell") # {}
    /\ dlog[Len(dlog)].code = <<2>>
    /\ mainRet = <<0>>

\* debug on a failed build
C20_WitnessDebug ==
    /\ dpc = "done"
    /\ context_args.debug
    /\ ~context_args.shell_after
    /\ DCalls("shell") # {}
    /\ mainRet = <<2>>

\* ======================================================================
\* extraction of a pulled archive
\* ======================================================================

\* an extraction by _recursive_get has run
Extracted == op = "_copy_from_instance_to_host" /\ version_info # NoVersion

\* the members of the pulled archive that lead outside the destination
Escaping ==
    {i \in 1..Len(archive) : Target(DataFilter(archive[i])).outside}

\* C12 as stated: on every runtime and for every pulled archive no file is
\* written outside the destination root.
C12_NoWriteOutside ==
    Extracted => \A w \in written : ~w.outside

\* C12, amended to the runtimes the code asks the filter for: when
\* sys.version_info >= (3, 12) no file is written outside the destination
\* root; an absolute member name is confined under the root, a member that
\* resolves outside it raises OutsideDestinationError, and no member after it
\* is written. On an older runtime every member is written where its name
\* leads, outside the root included.
C12_GuardWhereFiltered ==
    Extracted =>
      /\ VersionAtLeast(version_info, FilterSince) =>
           /\ \A w \in written : ~w.outside
           /\ Escaping # {} <=> err = "tarfile.OutsideDestinationError"
           /\ written = {Target(DataFilter(archive[i])) :
                          i \in {k \in 1..Len(archive) :
                                   \A j \in Escaping : k < j}}
      /\ ~VersionAtLeast(version_info, FilterSince) =>
           /\ err = "none"
           /\ written = {Target(archive[i]) : i \in 1..Len(archive)}

\* on 3.12 a member was written, then ../../etc/passwd was refused
C12_Witness ==
    /\ Extracted
    /\ version_info = <<3, 12>>
    /\ Len(archive) = 2
    /\ archive[2].parts = <<"..", "..", "etc", "passwd">>
    /\ written = {[outside |-> FALSE, path |-> <<"b">>]}
    /\ err = "tarfile.OutsideDestinationError"

\* on 3.12 an absolute member name was confined under the destination
C12_WitnessConfined ==
    /\ Extracted
    /\ version_info = <<3, 12>>
    /\ archive = <<[abs |-> TRUE, parts |-> <<"etc", "passwd">>]>>
    /\ written = {[outside |-> FALSE, path |-> <<"etc", "passwd">>]}
    /\ err = "none"

\* ======================================================================
\* teardown
\* ======================================================================

\* _clean_instance has been called on the provider and has ended
TornDown == op = "_clean_instance" /\ pc = "ready"

\* C21: a teardown that found the instance removes it with v=True and
\* force=True and, once the removal returned, the provider holds no handle,
\* so that _check_instance refuses every later operation; a teardown called
\* when no instance of the name exists leaves no handle behind either.
C21_Teardown ==
    TornDown =>
      /\ \A i \in Removes :
           /\ calls[i].target = instance_name
           /\ calls[i].opts = {"v", "force"}
           /\ calls[i].result = "ok" => (_container = None /\ NotConfigured)
      /\ calls[1].result = "NotFound" =>
           (Removes = {} /\ _container # Handle)

\* ----------------------------------------------------------------------
\* C22: once the module's three registrations have run the registry holds
\* exactly them, whatever create and register_args calls were made; create
\* with a name that is not registered ends in ProviderNotRegisteredError
\* with no constructor invoked and no DockerClient construction begun;
\* create with a registered name invokes that name's class once and no
\* other; a DockerClient is only constructed by create("docker").
\* ----------------------------------------------------------------------
C22_RegistryLookup ==
    /\ pc # "import" =>
         _providers = ("docker" :> "DockerClient" @@ "lxd" :> "LXDClient"
                       @@ "multipass" :> "MultipassClient")
    /\ created # NoCreate =>
         /\ created.name \notin DOMAIN _providers =>
              /\ pc = "failed"
              /\ op = "create"
              /\ err = "ProviderNotRegisteredError"
              /\ created.invoked = <<>>
              /\ calls = <<>>
              /\ _container = Unset
         /\ created.name \in DOMAIN _providers =>
              created.invoked = <<_providers[created.name]>>
    /\ op \in {"__init__", "constructed"} =>
         (created.name = "docker" /\ created.invoked = <<"DockerClient">>)
    /\ pc = "foreign" => (created.name \in {"lxd", "multipass"} /\ calls = <<>>)
    /\ pc = "registered" => created = NoCreate

\* create("podman") has failed after an earlier create("docker") ran its
\* constructor and that provider was dropped
C22_Witness ==
    /\ pc = "failed"
    /\ op = "create"
    /\ created.name = "podman"
    /\ emptyEvictions > 0

====
